---------------------------- MODULE Spec2Model ----------------------------
(***************************************************************************)
(* Model of the log viewer front end, src/src/ui/static/js/logs.js:        *)
(* LogsDropdown (selection menus), FetchLogs (submit, range fetch, live    *)
(* polling, rendering) and FilterLogs (type and keyword visibility).       *)
(*                                                                         *)
(* The browser's event loop runs one handler at a time, so every handler   *)
(* (click, input, timer callback, fetch continuation) is one atomic        *)
(* action.  Strings whose characters matter (the instance label, log       *)
(* content, the keyword) are sequences of one-character strings.           *)
(***************************************************************************)
EXTENDS Integers, Sequences, FiniteSets, TLC

(***************************************************************************)
(* Bounds of the model.                                                    *)
(***************************************************************************)
MaxPending == 1     \* submit/poll timers pending plus fetches in flight
MaxRows == 2        \* <li> rows in the list
MaxStamp == 2       \* largest last_update the server reports

(***************************************************************************)
(* JavaScript values: numbers, strings, booleans, NaN, in one record shape.*)
(***************************************************************************)
JsNum(n) == [k |-> "num", n |-> n, s |-> ""]
JsStr(s) == [k |-> "str", n |-> 0, s |-> s]
JsBool(b) == [k |-> "bool", n |-> IF b THEN 1 ELSE 0, s |-> ""]
JsNaN == [k |-> "nan", n |-> 0, s |-> ""]
JsUndefined == [k |-> "undefined", n |-> 0, s |-> ""]

\* ToBoolean: 0, NaN, "" and false are falsy.
Truthy(v) ==
  CASE v.k = "num" -> v.n # 0
    [] v.k = "str" -> v.s # ""
    [] v.k = "bool" -> v.n = 1
    [] OTHER -> FALSE

\* The values typed into input#update-delay that the model draws from.
DelayTexts == {"", "abc", "0", "3", "-1"}

\* ToNumber of a string, for the strings above ("" is 0, "abc" is NaN).
ToNumber(v) ==
  IF v.k = "num" THEN v
  ELSE IF v.k = "nan" THEN JsNaN
  ELSE IF v.k = "bool" THEN JsNum(v.n)
  ELSE CASE v.s = "" -> JsNum(0)
         [] v.s = "0" -> JsNum(0)
         [] v.s = "3" -> JsNum(3)
         [] v.s = "2000" -> JsNum(2000)
         [] v.s = "-1" -> JsNum(-1)
         [] OTHER -> JsNaN

\* v * 1000
Times1000(v) ==
  LET x == ToNumber(v) IN IF x.k = "nan" THEN JsNaN ELSE JsNum(x.n * 1000)

\* The delay setTimeout(fn, v) waits: ToNumber, NaN and negatives become 0.
TimerMs(v) ==
  LET x == ToNumber(v) IN IF x.k = "nan" \/ x.n < 0 THEN 0 ELSE x.n

(***************************************************************************)
(* Character strings.                                                      *)
(***************************************************************************)
EmptyStr == <<>>
NoneStr == <<"n", "o", "n", "e">>
PaddedNone == <<" ">> \o NoneStr \o <<" ">>
WebStr == <<"w", "e", "b">>

RECURSIVE TrimStart(_)
TrimStart(s) ==
  IF s # <<>> /\ Head(s) = " " THEN TrimStart(Tail(s)) ELSE s

RECURSIVE TrimEnd(_)
TrimEnd(s) ==
  IF s # <<>> /\ s[Len(s)] = " " THEN TrimEnd(SubSeq(s, 1, Len(s) - 1)) ELSE s

\* String.prototype.trim
Trim(s) == TrimEnd(TrimStart(s))

\* String.prototype.includes
Includes(content, keyword) ==
  \E i \in 0..(Len(content) - Len(keyword)) :
    SubSeq(content, i + 1, i + Len(keyword)) = keyword

(***************************************************************************)
(* State.                                                                  *)
(***************************************************************************)
VARIABLES
  \* DOM owned by LogsDropdown
  selectText,     \* textContent of [logs-setting-select-text], per setting
  menuClass,      \* classes "hidden"/"flex" of each dropdown menu
  chevronClass,   \* class "rotate-180" of each chevron
  selectedBtn,    \* value of the highlighted item of each dropdown
  dateClass,      \* classes "hidden"/"flex" of the from-date / to-date divs
  \* FetchLogs fields
  instanceName, fromDate, formDate, toDate, isLiveUpdate, updateDelay,
  lastUpdate,
  \* event loop and network
  timers,         \* pending setTimeout callbacks, in firing order
  inflight,       \* fetches issued and not yet continued
  srvLast,        \* last last_update the server reported
  \* the list and FilterLogs
  rows,           \* children of [logs-list]: [type, content, hidden]
  lastType, keyword,
  \* history
  closedRendered, \* the range response of the last accepted, closed-range
                  \* submit has been rendered
  staleRows,      \* the list holds a row of a response to a request that a
                  \* live cycle issued before the last click on submit
  offSubmit       \* "no", or the mark ("a" or "b", in turn) of the last
                  \* run of getSettings if the live toggle was unchecked

domVars == <<selectText, menuClass, chevronClass, selectedBtn, dateClass>>
fetchVars == <<instanceName, fromDate, formDate, toDate, isLiveUpdate,
               updateDelay, lastUpdate>>
netVars == <<timers, inflight, srvLast>>
filterVars == <<lastType, keyword>>
histVars == <<closedRendered, staleRows, offSubmit>>
vars == <<domVars, fetchVars, netVars, rows, filterVars, histVars>>

Settings == {"instances", "types"}
Labels == {EmptyStr, NoneStr, PaddedNone, WebStr}
TypeValues == {"all", "error", "info", "message", "misc"}

Stamps == 1..MaxStamp
\* Math.round(Date.now() / 1000 - 86400): the earliest timestamp of the model.
DayAgo == CHOOSE s \in Stamps : \A t \in Stamps : s <= t

(***************************************************************************)
(* FetchLogs.                                                              *)
(***************************************************************************)
\* The polling delay of the constructor and of getSettings' fallback.
DefaultDelay == 2000

\* What getSettings reads from the form controls when it runs.
FormInputs ==
  [live : BOOLEAN,
   delay : {JsStr(t) : t \in DelayTexts},
   from : {JsNaN, JsNum(MaxStamp)},
   to : {JsNaN, JsNum(0), JsNum(MaxStamp)}]

\* The form values of the polling model: both outcomes of every test of
\* getSettings but the one on the from-date, which no request carries.
PollInputs ==
  [live : BOOLEAN,
   delay : {JsStr(""), JsStr("3")},
   from : {JsNaN},
   to : {JsNaN, JsNum(MaxStamp)}]

\* The validation with the trim left out.
SettingsAcceptedUntrimmed(name) == ~(name = EmptyStr \/ name = NoneStr)

\* The validation of getSettings: its second statement does not return false.
SettingsAccepted(name) == ~(name = EmptyStr \/ Trim(name) = NoneStr)

\* The fields getSettings assigns once the instance name is accepted.
ReadSettings(inp) ==
  [formDate |-> IF Truthy(inp.from) THEN inp.from ELSE JsNum(DayAgo),
   toDate |-> IF Truthy(inp.to) THEN inp.to ELSE JsBool(FALSE),
   updateDelay |-> IF Truthy(Times1000(inp.delay)) THEN inp.delay
                   ELSE JsNum(DefaultDelay),
   isLiveUpdate |-> inp.live]

\* The condition both the submit handler and showLogs test.
LiveOpen(live, to) == live /\ ~Truthy(to)

\* A URL: the instance path segment (absent or present) and the query.
Param(key, val) == [key |-> key, val |-> val]
Url(inst, query) == [inst |-> inst, query |-> query]

\* The argument of fetch in getLogsFromToDate.  `+` binds tighter than `?:`,
\* so the condition of the ternary is the whole concatenation, a non-empty
\* string, and the URL is the ternary's first branch alone.
RangeUrl(name, from, to) ==
  LET head == Url(<<name>>, <<Param("from_date", from)>>)
      cond == Len(head.inst) + Len(head.query) > 0
  IN  IF cond THEN Url(<<>>, <<Param("to_date", to)>>) ELSE Url(<<>>, <<>>)

\* The argument of fetch in getLogsSinceLastUpdate.
IncrUrl(name, cursor) ==
  Url(<<name>>,
      IF cursor # 0 THEN <<Param("last_update", JsNum(cursor))>> ELSE <<>>)

Request(mode, url, sched, clickOk) ==
  [mode |-> mode, url |-> url, status |-> 0, stamp |-> 0,
   g_sched |-> sched, g_clickOk |-> clickOk, g_cur |-> TRUE,
   g_old |-> FALSE]

\* The requests in flight when submit is clicked with live settings applied:
\* the running live cycle issued them before that click.
Aged(rs) == [i \in DOMAIN rs |-> [rs[i] EXCEPT !.g_old = TRUE]]

Timer(kind, delay, sched, clickOk) ==
  [kind |-> kind, ms |-> TimerMs(delay), g_sched |-> sched,
   g_clickOk |-> clickOk]

\* setTimeout: the new timer fires before an older one only if its delay is
\* shorter; timers of equal due time fire in the order they were set.
InsertTimer(ts, t) ==
  {SubSeq(ts, 1, p - 1) \o <<t>> \o SubSeq(ts, p, Len(ts)) :
     p \in {q \in 1..(Len(ts) + 1) : \A j \in q..Len(ts) : ts[j].ms > t.ms}}

Remove(seq, i) == SubSeq(seq, 1, i - 1) \o SubSeq(seq, i + 1, Len(seq))

Pending == Len(timers) + Len(inflight)

\* A log record of a response, and the row showLogs builds from it.
LogRecord(type, content) == [type |-> type, content |-> content]
Row(log) == [type |-> log.type, content |-> log.content, hidden |-> FALSE]

\* The forEach with the new <li> put in front of the list.
RenderRowsPrepended(list, logs) ==
  [i \in 1..Len(logs) |-> Row(logs[Len(logs) + 1 - i])] \o list

\* The forEach of showLogs: one appended <li> per record, in order.
RenderRows(list, logs) == list \o [i \in 1..Len(logs) |-> Row(logs[i])]

\* getSettings followed by `isSettings ? this.getLogsFromToDate() : ""`, as
\* the click handler and its deferred callback both run it.  clickOk records
\* whether the label was acceptable when the button was clicked.
SubmitNow(inp, clickOk) ==
  LET name == selectText["instances"]
      set == ReadSettings(inp)
  IN  /\ instanceName' = name
      /\ offSubmit' = IF inp.live THEN "no"
                      ELSE IF offSubmit = "a" THEN "b" ELSE "a"
      /\ IF SettingsAccepted(name)
         THEN /\ formDate' = set.formDate
              /\ toDate' = set.toDate
              /\ updateDelay' = set.updateDelay
              /\ isLiveUpdate' = set.isLiveUpdate
              /\ inflight' =
                   Append([i \in DOMAIN inflight |->
                             [inflight[i] EXCEPT !.g_cur = FALSE]],
                          Request("range",
                                  RangeUrl(name, fromDate, set.toDate),
                                  0, clickOk))
              /\ closedRendered' = FALSE
         ELSE UNCHANGED <<formDate, toDate, updateDelay, isLiveUpdate,
                          inflight, closedRendered>>
      /\ UNCHANGED <<fromDate, lastUpdate, srvLast>>

\* The click listener of button#submit-settings, "wait if live update
\* previously" branch: the list is cleared and the rest is deferred.
SubmitClickLive(cap) ==
  /\ Pending < cap
  /\ LiveOpen(isLiveUpdate, toDate)
  /\ rows' = <<>>
  /\ timers' \in InsertTimer(timers,
                    Timer("submit", updateDelay, 0,
                          SettingsAccepted(selectText["instances"])))
  /\ inflight' = Aged(inflight)
  /\ staleRows' = FALSE
  /\ offSubmit' = "no"
  /\ UNCHANGED <<domVars, fetchVars, srvLast, filterVars, closedRendered>>

\* The same listener, else branch: the list is cleared and the settings are
\* read and used at once.
SubmitClickNow(cap, inp) ==
  /\ Pending < cap
  /\ ~LiveOpen(isLiveUpdate, toDate)
  /\ rows' = <<>>
  /\ staleRows' = FALSE
  /\ SubmitNow(inp, TRUE)
  /\ UNCHANGED <<domVars, timers, filterVars>>

\* The callback the click handler deferred by updateDelay.
SubmitTimerFire(inp) ==
  /\ timers # <<>>
  /\ Head(timers).kind = "submit"
  /\ timers' = Tail(timers)
  /\ SubmitNow(inp, Head(timers).g_clickOk)
  /\ UNCHANGED <<domVars, rows, filterVars, staleRows>>

\* The callback showLogs scheduled: getLogsSinceLastUpdate up to its fetch.
PollTimerFire ==
  /\ timers # <<>>
  /\ Head(timers).kind = "poll"
  /\ timers' = Tail(timers)
  /\ inflight' = Append(inflight,
                        Request("incr", IncrUrl(instanceName, lastUpdate),
                                Head(timers).g_sched, TRUE))
  /\ UNCHANGED <<domVars, fetchVars, srvLast, rows, filterVars, histVars>>

\* The server answers request i: a status and, with 200, a last_update that
\* is not below the one it reported before.
ServerHandle(i, status, stamp) ==
  /\ i \in DOMAIN inflight
  /\ inflight[i].status = 0
  /\ stamp >= srvLast
  /\ inflight' = [inflight EXCEPT ![i].status = status,
                                  ![i].stamp = IF status = 200 THEN stamp
                                               ELSE 0]
  /\ srvLast' = IF status = 200 THEN stamp ELSE srvLast
  /\ UNCHANGED <<domVars, fetchVars, timers, rows, filterVars, histVars>>

\* The test with any status taken for a success.
StatusOkAny(status) == status # 0

\* `response.status === 200`
StatusOk(status) == status = 200

\* The rest of getLogsFromToDate / getLogsSinceLastUpdate once the response
\* of request i is there: showLogs on 200, console.log otherwise.
\* (goBottomList, 100 ms later, only moves the scroll offset.)
Receive(i, logs) ==
  /\ i \in DOMAIN inflight
  /\ inflight[i].status # 0
  /\ inflight' = Remove(inflight, i)
  /\ IF StatusOk(inflight[i].status)
     THEN /\ Len(rows) + Len(logs) <= MaxRows
          /\ lastUpdate' = inflight[i].stamp
          /\ rows' = RenderRows(rows, logs)
          /\ IF LiveOpen(isLiveUpdate, toDate)
             THEN timers' \in InsertTimer(timers,
                                Timer("poll", updateDelay,
                                      inflight[i].stamp, TRUE))
             ELSE UNCHANGED timers
          /\ closedRendered' =
               (closedRendered
                  \/ (inflight[i].mode = "range" /\ inflight[i].g_cur
                        /\ Truthy(toDate)))
          /\ staleRows' = (staleRows \/ (inflight[i].g_old /\ logs # <<>>))
     ELSE /\ logs = <<>>
          /\ UNCHANGED <<lastUpdate, rows, timers, closedRendered,
                         staleRows>>
  /\ UNCHANGED <<domVars, instanceName, fromDate, formDate, toDate,
                 isLiveUpdate, updateDelay, srvLast, filterVars, offSubmit>>

(***************************************************************************)
(* FilterLogs.                                                             *)
(***************************************************************************)
Hide(list, i, cond) == IF cond THEN [list[i] EXCEPT !.hidden = TRUE] ELSE list[i]

\* The "reset" loop left out.
ShowAllSkipped(list) == list

\* The "reset" loop of filter.
ShowAll(list) == [i \in DOMAIN list |-> [list[i] EXCEPT !.hidden = FALSE]]

\* setFilterType without its second test: 'misc' is matched exactly.
setFilterTypeExactOnly(list, type) ==
  IF type = "all" THEN list
  ELSE [i \in DOMAIN list |-> Hide(list, i, list[i].type # type)]

\* setFilterType without its early return on 'all'.
setFilterTypeNoAll(list, type) ==
  [i \in DOMAIN list |->
     LET first == Hide(list, i, type # "misc" /\ list[i].type # type)
     IN  IF type = "misc" /\ list[i].type # "info"
              /\ list[i].type # "message"
         THEN [first EXCEPT !.hidden = TRUE]
         ELSE first]

setFilterType(list, type) ==
  IF type = "all" THEN list
  ELSE [i \in DOMAIN list |->
          LET first == Hide(list, i, type # "misc" /\ list[i].type # type)
          IN  IF type = "misc" /\ list[i].type # "info"
                   /\ list[i].type # "message"
              THEN [first EXCEPT !.hidden = TRUE]
              ELSE first]

\* setFilterKeyword hiding nothing.
setFilterKeywordSkipped(list, kw) == list

setFilterKeyword(list, kw) ==
  IF kw = EmptyStr THEN list
  ELSE [i \in DOMAIN list |-> Hide(list, i, ~Includes(list[i].content, kw))]

\* filter() removing the rows it hides from the list.
filterDiscarding(list, type, kw) ==
  IF Len(list) = 0 THEN list
  ELSE SelectSeq(setFilterKeyword(setFilterType(ShowAll(list), type), kw),
                 LAMBDA r : ~r.hidden)

\* filter(): setFilterDate, its last call, is not a method of the class, so
\* the call throws after the two passes above have run.
filter(list, type, kw) ==
  IF Len(list) = 0 THEN list
  ELSE setFilterKeyword(setFilterType(ShowAll(list), type), kw)

\* The input listener of input#keyword; kw is the field's new value.
KeywordInput(kw) ==
  /\ kw # keyword
  /\ keyword' = kw
  /\ rows' = filter(rows, lastType, kw)
  /\ UNCHANGED <<domVars, fetchVars, netVars, lastType, histVars>>

(***************************************************************************)
(* LogsDropdown.                                                           *)
(***************************************************************************)
\* hideDropdown without the removal of 'flex'.
hideDropdownKeepsFlex(setting) ==
  /\ menuClass' = [menuClass EXCEPT ![setting] = @ \cup {"hidden"}]
  /\ chevronClass' = [chevronClass EXCEPT ![setting] = @ \ {"rotate-180"}]

hideDropdown(setting) ==
  /\ menuClass' = [menuClass EXCEPT
                     ![setting] = (@ \cup {"hidden"}) \ {"flex"}]
  /\ chevronClass' = [chevronClass EXCEPT ![setting] = @ \ {"rotate-180"}]

\* hideFilterOnLocal without its second test: the inputs are never shown.
hideFilterOnLocalOnly(type) ==
  IF type = "local" THEN (dateClass \cup {"hidden"}) \ {"flex"}
  ELSE dateClass

\* hideInp / showInp on both date inputs.
hideFilterOnLocal(type) ==
  IF type = "local" THEN (dateClass \cup {"hidden"}) \ {"flex"}
  ELSE (dateClass \cup {"flex"}) \ {"hidden"}

Toggle(classes, c) == IF c \in classes THEN classes \ {c} ELSE classes \cup {c}

\* A click on the (enabled) button that opens or closes a dropdown.
ToggleClick(setting) ==
  /\ menuClass' = [menuClass EXCEPT
                     ![setting] = Toggle(Toggle(@, "hidden"), "flex")]
  /\ chevronClass' = [chevronClass EXCEPT
                        ![setting] = Toggle(@, "rotate-180")]
  /\ UNCHANGED <<selectText, selectedBtn, dateClass, fetchVars, netVars,
                 rows, filterVars, histVars>>

\* A click on an item of a dropdown: the listener of FilterLogs (items of
\* "types") and the listener of LogsDropdown, both run for the one event.
ItemClick(setting, value, type) ==
  /\ IF setting = "types"
     THEN /\ lastType' = value
          /\ rows' = filter(rows, value, keyword)
     ELSE UNCHANGED <<lastType, rows>>
  /\ hideDropdown(setting)
  /\ IF selectText[setting] = value
     THEN UNCHANGED <<selectText, selectedBtn, dateClass>>
     ELSE /\ selectText' = [selectText EXCEPT ![setting] = value]
          /\ selectedBtn' = [selectedBtn EXCEPT ![setting] = value]
          /\ dateClass' = IF setting = "instances"
                          THEN hideFilterOnLocal(type) ELSE dateClass
  /\ UNCHANGED <<fetchVars, netVars, keyword, histVars>>

\* The items of the "instances" dropdown: value and _type attributes.
InstanceItems ==
  {[value |-> WebStr, type |-> "local"], [value |-> NoneStr, type |-> ""]}

\* The items of the "types" dropdown.
TypeItems == {[value |-> v, type |-> ""] : v \in TypeValues}
Items(setting) == IF setting = "instances" THEN InstanceItems ELSE TypeItems

\* The _type attribute of the item whose value is the label ('' if none is).
ItemType(label) ==
  IF \E item \in InstanceItems : item.value = label
  THEN (CHOOSE item \in InstanceItems : item.value = label).type
  ELSE ""

\* The classes the page gives the divs of the date inputs when it is served:
\* hidden for a local instance, shown otherwise.
TemplateDateClass(label) ==
  IF ItemType(label) = "local" THEN {"hidden"} ELSE {"flex"}

(***************************************************************************)
(* The page after the three constructors have run.                         *)
(***************************************************************************)
PageInit ==
  /\ selectText \in {[instances |-> l, types |-> "all"] : l \in Labels}
  /\ menuClass = [s \in Settings |-> {"hidden"}]
  /\ chevronClass = [s \in Settings |-> {}]
  /\ selectedBtn = selectText
  /\ dateClass = TemplateDateClass(selectText["instances"])
  /\ instanceName = EmptyStr
  /\ fromDate = JsStr("")
  /\ formDate = JsUndefined
  /\ toDate = JsStr("")
  /\ isLiveUpdate = FALSE
  /\ updateDelay = JsNum(DefaultDelay)
  /\ lastUpdate = DayAgo
  /\ timers = <<>>
  /\ inflight = <<>>
  /\ srvLast = DayAgo
  /\ lastType = ""
  /\ keyword = EmptyStr
  /\ closedRendered = FALSE
  /\ staleRows = FALSE
  /\ offSubmit = "no"

Init == PageInit /\ rows = <<>>

\* The records of the responses of the polling model.
PollLogs == {<<>>, <<LogRecord("info", <<"y">>)>>,
             <<LogRecord("error", <<"x">>), LogRecord("info", <<"y">>)>>}

\* Every handler of the fetcher, with at most cap timers and fetches
\* outstanding (a submit click is what adds one), the form values drawn
\* from inputs and the records of the responses from logSet.
FetchSteps(cap, inputs, logSet) ==
  \/ SubmitClickLive(cap)
  \/ \E inp \in inputs : SubmitClickNow(cap, inp)
  \/ \E inp \in inputs : SubmitTimerFire(inp)
  \/ PollTimerFire
  \/ \E i \in DOMAIN inflight, status \in {200, 500}, stamp \in Stamps :
       ServerHandle(i, status, stamp)
  \/ \E i \in DOMAIN inflight, logs \in logSet : Receive(i, logs)

\* The user selects an instance.
InstanceSteps ==
  \E item \in InstanceItems : ItemClick("instances", item.value, item.type)

\* The user types a keyword or selects a type.
FilterSteps(keywords, types) ==
  \/ \E kw \in keywords : KeywordInput(kw)
  \/ \E value \in types : ItemClick("types", value, "")

\* The polling model: one submit outstanding at a time.
Next == FetchSteps(MaxPending, PollInputs, PollLogs) \/ InstanceSteps
Spec == Init /\ [][Next]_vars

\* A second submit may be clicked while the first is outstanding.
RacePending == MaxPending + 1
RaceNext == FetchSteps(RacePending, PollInputs, PollLogs) \/ InstanceSteps
RaceSpec == Init /\ [][RaceNext]_vars

\* The event loop runs every due timer callback, the server answers every
\* request and every answer is delivered; the user is free not to act.
Fairness ==
  /\ WF_vars(\E inp \in PollInputs : SubmitTimerFire(inp))
  /\ WF_vars(PollTimerFire)
  /\ WF_vars(\E i \in DOMAIN inflight, status \in {200, 500},
                stamp \in Stamps : ServerHandle(i, status, stamp))
  /\ WF_vars(\E i \in DOMAIN inflight, logs \in PollLogs : Receive(i, logs))
FairRaceSpec == RaceSpec /\ Fairness

\* The list model: fetching and filtering together, for an open range and
\* the default delay.
ViewInputs ==
  [live : BOOLEAN, delay : {JsStr("")}, from : {JsNaN}, to : {JsNaN}]
ViewKeywords == {EmptyStr, <<"x">>}
ViewTypes == {"all", "error"}
ViewNext ==
  FetchSteps(MaxPending, ViewInputs, PollLogs)
    \/ FilterSteps(ViewKeywords, ViewTypes)
ViewSpec == Init /\ [][ViewNext]_vars

\* The filter model: a list as some responses have rendered it, and the
\* filter controls.
FilterTypes == {"error", "info", "message", "misc"}
FilterContents == {<<"a">>, <<"A">>, <<"a", "b">>}
FilterKeywords == {EmptyStr, <<"a">>, <<"b">>}
FilterLogs == {LogRecord(t, c) : t \in FilterTypes, c \in FilterContents}
LogSeqs(n) == UNION {[1..m -> FilterLogs] : m \in 0..n}
FilterInit ==
  /\ PageInit
  /\ selectText["instances"] = WebStr
  /\ rows \in {RenderRows(<<>>, logs) : logs \in LogSeqs(MaxRows)}
FilterNext == FilterSteps(FilterKeywords, TypeValues)
FilterSpec == FilterInit /\ [][FilterNext]_vars

\* The delay model: every text of the delay input, for an open range and
\* responses without records.
DelayInputs ==
  [live : BOOLEAN, delay : {JsStr(t) : t \in DelayTexts}, from : {JsNaN},
   to : {JsNaN}]
DelayNext == FetchSteps(MaxPending, DelayInputs, {<<>>}) \/ InstanceSteps
DelaySpec == Init /\ [][DelayNext]_vars

\* The dropdown model: the buttons and the items of both dropdowns, over a
\* list as one response has rendered it.
DropInit ==
  /\ PageInit
  /\ rows \in {RenderRows(<<>>, logs) : logs \in PollLogs}
DropNext ==
  \/ \E setting \in Settings : ToggleClick(setting)
  \/ InstanceSteps
  \/ \E item \in TypeItems : ItemClick("types", item.value, item.type)
DropSpec == DropInit /\ [][DropNext]_vars

(***************************************************************************)
(* Vocabulary of the claims.                                               *)
(***************************************************************************)
PollCount(ts) == Cardinality({i \in DOMAIN ts : ts[i].kind = "poll"})
IncrCount(rs) == Cardinality({i \in DOMAIN rs : rs[i].mode = "incr"})

\* The step runs getSettings (in the click handler or in its callback).
RunsGetSettings ==
  \E inp \in PollInputs \cup ViewInputs :
    SubmitClickNow(RacePending, inp) \/ SubmitTimerFire(inp)

\* The step renders the 200 response of request i, whose records are logs.
Renders(i, logs) == inflight[i].status = 200 /\ Receive(i, logs)

\* No live cycle is running.
Quiet == PollCount(timers) = 0 /\ inflight = <<>>

(***************************************************************************)
(* C1: in every reachable state at most one log request is in flight and   *)
(* at most one poll timer is pending.                                      *)
(* Refuted: two clicks on submit put two requests in flight, and with live *)
(* mode on each of them starts a polling cycle of its own.                 *)
(***************************************************************************)
C1_OneRequestOneTimer == Len(inflight) <= 1 /\ PollCount(timers) <= 1

(***************************************************************************)
(* C2: in live mode without toDate every 200 render schedules exactly one  *)
(* incremental fetch, after updateDelay, and the last_update that fetch    *)
(* carries is the last_update of the response whose render scheduled it.   *)
(* Refuted: the callback reads the cursor when it fires, and a response of *)
(* another cycle rendered in between has replaced it.                      *)
(***************************************************************************)
C2_RearmWithRenderedCursor ==
  /\ [][\A i \in DOMAIN inflight, logs \in PollLogs :
          LiveOpen(isLiveUpdate, toDate) /\ Renders(i, logs)
            => /\ PollCount(timers') = PollCount(timers) + 1
               /\ Len(timers') = Len(timers) + 1
               /\ \E p \in DOMAIN timers' :
                    /\ timers'[p].kind = "poll"
                    /\ timers'[p].ms = TimerMs(updateDelay)
                    /\ timers' = SubSeq(timers, 1, p - 1) \o <<timers'[p]>>
                                   \o SubSeq(timers, p, Len(timers))]_vars
  /\ [](\A i \in DOMAIN inflight :
          inflight[i].mode = "incr"
            => inflight[i].url.query =
                 <<Param("last_update", JsNum(inflight[i].g_sched))>>)

(***************************************************************************)
(* C3: once the range response of a closed-range submit (toDate set) has   *)
(* been rendered, no automatic fetch is scheduled or issued any more: no   *)
(* poll timer is added and no incremental request is sent.                 *)
(* Refuted: the poll timer of the live cycle that ran before the submit    *)
(* is never cancelled and still fires.                                     *)
(***************************************************************************)
C3_ClosedRangeOneShot ==
  [][closedRendered
       => /\ PollCount(timers') <= PollCount(timers)
          /\ IncrCount(inflight') <= IncrCount(inflight)]_vars

(***************************************************************************)
(* C4: after a submit made with the live toggle unchecked, whatever the    *)
(* instance label is, the page eventually has no poll timer pending and no *)
(* request in flight, and stays so until the next submit.                  *)
(* Refuted: with a label that is empty or 'none', getSettings returns      *)
(* before it reads the toggle and the running cycle re-arms for ever.      *)
(***************************************************************************)
C4_LiveStopsAfterUncheckedSubmit ==
  /\ \A mark \in {"a", "b"} :
       [](offSubmit = mark => <>(Quiet \/ offSubmit # mark))
  /\ [][offSubmit # "no" /\ Quiet /\ offSubmit' = offSubmit => Quiet']_vars

(***************************************************************************)
(* C6: with a server whose last_update never decreases, the cursor         *)
(* lastUpdate never decreases.                                             *)
(* Refuted: two requests are in flight and the answer the server gave      *)
(* first is rendered last.                                                 *)
(***************************************************************************)
C6_CursorMonotone == [][lastUpdate' >= lastUpdate]_vars

(***************************************************************************)
(* C5, as claimed: a submit clicked while the instance label is empty or   *)
(* 'none' (trimmed) issues no request, at once or from its deferred        *)
(* callback.                                                               *)
(* Refuted: the deferred callback validates the label it finds when it     *)
(* fires, and the user may have selected an instance since the click.      *)
(***************************************************************************)
C5_NoRequestFromRejectedClick ==
  \A i \in DOMAIN inflight : inflight[i].g_clickOk

(***************************************************************************)
(* C5, amended: a run of getSettings (in the click handler when the submit *)
(* is not deferred, in the deferred callback when it is) that finds the    *)
(* instance label empty or equal to 'none' after trimming issues no        *)
(* request and changes no setting but instanceName.                        *)
(***************************************************************************)
C5_NoRequestFromRejectedSettings ==
  [][(selectText["instances"] = EmptyStr
        \/ selectText["instances"] \in {NoneStr, PaddedNone})
       /\ RunsGetSettings
       => /\ inflight' = inflight
          /\ <<formDate, toDate, updateDelay, isLiveUpdate>>'
               = <<formDate, toDate, updateDelay, isLiveUpdate>>]_vars

\* getSettings has rejected the padded label ' none ' and nothing was sent.
C5_Witness ==
  /\ instanceName = PaddedNone
  /\ inflight = <<>>
  /\ timers = <<>>

(***************************************************************************)
(* C7: rendering a 200 response {last_update, logs} appends one row per    *)
(* record, in the response's order and with the record's type and content, *)
(* leaves the rows already listed as they are and sets the cursor to       *)
(* last_update.                                                            *)
(***************************************************************************)
C7_RenderAppends ==
  [][\A i \in DOMAIN inflight, logs \in PollLogs :
       Renders(i, logs)
         => /\ Len(rows') = Len(rows) + Len(logs)
            /\ SubSeq(rows', 1, Len(rows)) = rows
            /\ \A j \in 1..Len(logs) :
                 /\ rows'[Len(rows) + j].type = logs[j].type
                 /\ rows'[Len(rows) + j].content = logs[j].content
            /\ lastUpdate' = inflight[i].stamp]_vars

\* A row just rendered is added, visible, behind a row that a filter hid.
C7_Witness ==
  /\ Len(rows) = 2
  /\ rows[1].hidden
  /\ ~rows[2].hidden
  /\ lastUpdate > DayAgo

(***************************************************************************)
(* Vocabulary of the filter claims.                                        *)
(***************************************************************************)
\* The step runs filter().
FilterRuns ==
  \/ \E kw \in FilterKeywords \cup ViewKeywords : KeywordInput(kw)
  \/ \E value \in TypeValues : ItemClick("types", value, "")

\* The type predicate as C8 words it.
TypeKeepsAsClaimed(selected, type) ==
  \/ selected = "all"
  \/ selected = "misc" /\ type \in {"info", "message"}
  \/ type = selected

\* The type predicate: under 'misc' only 'info' and 'message' are kept.
TypeKeeps(selected, type) ==
  \/ selected = "all"
  \/ selected = "misc" /\ type \in {"info", "message"}
  \/ selected \notin {"all", "misc"} /\ type = selected

(***************************************************************************)
(* C8, as claimed: with an empty keyword, right after filter() on a        *)
(* non-empty list, a row is visible iff the selected type is 'all', or it  *)
(* is 'misc' and the row's type is 'info' or 'message', or the row's type  *)
(* equals the selected type.                                               *)
(* Refuted: with 'misc' selected a row whose type is 'misc' is hidden.     *)
(***************************************************************************)
C8_TypePredicateAsClaimed ==
  [][keyword' = EmptyStr /\ rows # <<>> /\ FilterRuns
       => \A i \in DOMAIN rows :
            ~rows'[i].hidden <=> TypeKeepsAsClaimed(lastType', rows[i].type)]_vars

(***************************************************************************)
(* C8, amended: with an empty keyword, right after filter() on a non-empty *)
(* list, a row is visible iff the selected type is 'all', or it is 'misc'  *)
(* and the row's type is 'info' or 'message', or it is neither 'all' nor   *)
(* 'misc' and equals the row's type; whatever was hidden before the call.  *)
(***************************************************************************)
C8_TypePredicate ==
  [][keyword' = EmptyStr /\ rows # <<>> /\ FilterRuns
       => \A i \in DOMAIN rows :
            ~rows'[i].hidden <=> TypeKeeps(lastType', rows[i].type)]_vars

\* 'misc' is selected: a 'misc' row is hidden next to a visible 'info' row.
C8_Witness ==
  /\ lastType = "misc"
  /\ keyword = EmptyStr
  /\ \E i, j \in DOMAIN rows :
       /\ rows[i].type = "misc" /\ rows[i].hidden
       /\ rows[j].type = "info" /\ ~rows[j].hidden

(***************************************************************************)
(* C9, as claimed: with type 'all' selected, no row is hidden after        *)
(* filter(), whatever the keyword.                                         *)
(* Refuted: the keyword pass runs after the type pass, for every type.     *)
(***************************************************************************)
C9_AllKeepsEveryRow ==
  [][lastType' = "all" /\ FilterRuns
       => \A i \in DOMAIN rows : ~rows'[i].hidden]_vars

(***************************************************************************)
(* C9, amended: with type 'all' selected the type predicate hides nothing: *)
(* after filter() a row is hidden iff the keyword is not empty and the     *)
(* row's content does not contain it.                                      *)
(***************************************************************************)
C9_AllLeavesKeywordOnly ==
  [][lastType' = "all" /\ rows # <<>> /\ FilterRuns
       => \A i \in DOMAIN rows :
            rows'[i].hidden
              <=> (keyword' # EmptyStr
                     /\ ~Includes(rows[i].content, keyword'))]_vars

\* 'all' is selected and the keyword hides one row and keeps another.
C9_Witness ==
  /\ lastType = "all"
  /\ keyword # EmptyStr
  /\ \E i, j \in DOMAIN rows : rows[i].hidden /\ ~rows[j].hidden

(***************************************************************************)
(* C10: with a keyword, filter() hides every row whose content does not    *)
(* contain it (case-sensitive); filter() with the keyword emptied again    *)
(* leaves hidden exactly the rows the type predicate hides, as filter()    *)
(* with an empty keyword does on its own, for every selected type.         *)
(***************************************************************************)
C10_KeywordHidesAndRestores ==
  [][rows # <<>> /\ FilterRuns
       => /\ keyword' # EmptyStr
               => \A i \in DOMAIN rows :
                    ~Includes(rows[i].content, keyword') => rows'[i].hidden
          /\ keyword' = EmptyStr /\ keyword # EmptyStr
               => \A i \in DOMAIN rows :
                    rows'[i].hidden <=> ~TypeKeeps(lastType', rows[i].type)]_vars

\* Keyword 'a': a row 'A' of the selected type is hidden, a row 'ab' is not.
C10_Witness ==
  /\ keyword = <<"a">>
  /\ lastType # ""
  /\ \E i, j \in DOMAIN rows :
       /\ rows[i].content = <<"A">> /\ rows[i].hidden
       /\ TypeKeeps(lastType, rows[i].type)
       /\ rows[j].content = <<"a", "b">> /\ ~rows[j].hidden

(***************************************************************************)
(* C11: a call of filter() only toggles visibility: the rows keep their    *)
(* number, order, type and content, and the cursor, the fetch settings,    *)
(* the pending timers and the requests in flight are unchanged.            *)
(***************************************************************************)
C11_FilterOnlyTogglesVisibility ==
  [][FilterRuns
       => /\ Len(rows') = Len(rows)
          /\ \A i \in DOMAIN rows :
               /\ rows'[i].type = rows[i].type
               /\ rows'[i].content = rows[i].content
          /\ fetchVars' = fetchVars
          /\ timers' = timers
          /\ inflight' = inflight]_vars

\* filter() has hidden a row of a live cycle whose poll timer or request is
\* outstanding, and a row behind it is still listed.
C11_Witness ==
  /\ Pending > 0
  /\ Len(rows) = 2
  /\ rows[1].hidden

(***************************************************************************)
(* C12: a click on submit during a live cycle does not interleave with     *)
(* that cycle.  The click clears the list and, when the settings applied   *)
(* before were live without toDate, issues nothing itself but sets one     *)
(* timer of updateDelay that re-reads the settings; and the list never     *)
(* holds a row of a response to a request that cycle issued before the     *)
(* last click.                                                             *)
(* Refuted: the click cancels nothing, so the response to the request the  *)
(* running cycle has in flight is rendered into the cleared list.          *)
(***************************************************************************)
C12_ResubmitDoesNotInterleave ==
  /\ [][LiveOpen(isLiveUpdate, toDate) /\ SubmitClickLive(RacePending)
          => /\ rows' = <<>>
             /\ Len(inflight') = Len(inflight)
             /\ Len(timers') = Len(timers) + 1
             /\ \E p \in DOMAIN timers' :
                  /\ timers'[p].kind = "submit"
                  /\ timers'[p].ms = TimerMs(updateDelay)
                  /\ timers' = SubSeq(timers, 1, p - 1) \o <<timers'[p]>>
                                 \o SubSeq(timers, p, Len(timers))]_vars
  /\ [](~staleRows)

(***************************************************************************)
(* C13: a response whose status is not 200 ends its cycle: its             *)
(* continuation appends no row, leaves the cursor and the settings as they *)
(* are, sets no timer and sends nothing, so that nothing of the cycle is   *)
(* left to issue a request; a request is only ever issued by the handler   *)
(* of a click on submit or by the callback of a pending timer.             *)
(***************************************************************************)
C13_Non200IsTerminal ==
  /\ [][\A i \in DOMAIN inflight, logs \in PollLogs :
          inflight[i].status \notin {0, 200} /\ Receive(i, logs)
            => /\ rows' = rows
               /\ fetchVars' = fetchVars
               /\ timers' = timers
               /\ inflight' = Remove(inflight, i)]_vars
  /\ [][Len(inflight') > Len(inflight)
          => \/ timers # <<>> /\ timers' = Tail(timers)
             \/ rows' = <<>> /\ timers' = timers
                  /\ ~LiveOpen(isLiveUpdate, toDate)]_vars

\* A live cycle that had rendered rows has received a status other than 200:
\* the settings are still live, and no timer or request is left.
C13_Witness ==
  /\ LiveOpen(isLiveUpdate, toDate)
  /\ SettingsAccepted(instanceName)
  /\ rows # <<>>
  /\ timers = <<>>
  /\ inflight = <<>>

(***************************************************************************)
(* C14: the range request issued after an accepted submit targets the      *)
(* selected instance, carries from_date equal to the from-date getSettings *)
(* has read (the input's value, or the default of 24 hours ago), and       *)
(* carries to_date, equal to toDate, iff a toDate is set.                  *)
(* Refuted: the argument of fetch is the first branch of a ternary whose   *)
(* condition is the whole concatenation; it is '?to_date=<toDate>' alone.  *)
(***************************************************************************)
C14_RangeRequestAsDocumented ==
  [][Len(inflight') > Len(inflight)
       /\ inflight'[Len(inflight')].mode = "range"
       => inflight'[Len(inflight')].url
            = Url(<<instanceName'>>,
                  <<Param("from_date", formDate')>>
                    \o IF Truthy(toDate') THEN <<Param("to_date", toDate')>>
                       ELSE <<>>)]_vars

(***************************************************************************)
(* C15: every request, range or incremental, over any sequence of submits  *)
(* and timer firings, targets an instance name that passed validation (not *)
(* empty, not 'none' once trimmed), and a submit that validation rejects   *)
(* does not change the instance a running live cycle polls: while a poll   *)
(* timer is pending, the name its callback will use passed validation.     *)
(* Refuted: getSettings stores the label in instanceName before it         *)
(* validates it, and the running cycle polls the rejected name.            *)
(***************************************************************************)
C15_RequestsTargetValidInstance ==
  /\ \A i \in DOMAIN inflight :
       \A k \in DOMAIN inflight[i].url.inst :
         SettingsAccepted(inflight[i].url.inst[k])
  /\ PollCount(timers) > 0 => SettingsAccepted(instanceName)

\* The keyword predicate.
KeywordKeeps(kw, content) == kw = EmptyStr \/ Includes(content, kw)

(***************************************************************************)
(* C16, as claimed: once filter() has run (here: once a type has been      *)
(* selected), every visible row passes the active type and keyword         *)
(* predicates in every later state, also after polling has appended rows.  *)
(* Refuted: showLogs appends every row visible and does not run filter().  *)
(***************************************************************************)
C16_VisibleRowsPassFilter ==
  lastType # ""
    => \A i \in DOMAIN rows :
         ~rows[i].hidden
           => /\ TypeKeeps(lastType, rows[i].type)
              /\ KeywordKeeps(keyword, rows[i].content)

(***************************************************************************)
(* C16, amended: right after filter() has run on a non-empty list every    *)
(* visible row passes the active type and keyword predicates; a row that a *)
(* later response renders is visible whatever the predicates are, and the  *)
(* visibility of a listed row changes only when filter() runs again.       *)
(***************************************************************************)
C16_FilterAppliesWhenRun ==
  /\ [][rows # <<>> /\ FilterRuns
          => \A i \in DOMAIN rows :
               ~rows'[i].hidden
                 => /\ TypeKeeps(lastType', rows[i].type)
                    /\ KeywordKeeps(keyword', rows[i].content)]_vars
  /\ [][\A i \in DOMAIN inflight, logs \in PollLogs :
          Renders(i, logs)
            => \A j \in 1..Len(logs) : ~rows'[Len(rows) + j].hidden]_vars
  /\ [][(\E j \in DOMAIN rows \cap DOMAIN rows' :
           rows'[j].hidden # rows[j].hidden)
          => FilterRuns]_vars

\* Type 'error' is selected: filter() has hidden an 'info' row, and a later
\* response has added another 'info' row, visible, behind it.
C16_Witness ==
  /\ lastType = "error"
  /\ \E i, j \in DOMAIN rows :
       /\ i < j
       /\ rows[i].type = "info" /\ rows[i].hidden
       /\ rows[j].type = "info" /\ ~rows[j].hidden

(***************************************************************************)
(* C17: before any type has been selected (lastType is still the value the *)
(* constructor gave it) the type predicate is inactive: filter() run by    *)
(* keyword input hides exactly the rows whose content does not contain the *)
(* keyword, and no row when the keyword is empty.                          *)
(* Refuted: lastType starts as '', which is neither 'all' nor 'misc' nor   *)
(* the type of any row, so the type pass hides every row.                  *)
(***************************************************************************)
C17_NoTypeMeansKeywordOnly ==
  [][lastType' = "" /\ rows # <<>> /\ FilterRuns
       => \A i \in DOMAIN rows :
            rows'[i].hidden <=> ~KeywordKeeps(keyword', rows[i].content)]_vars

\* The menu of a dropdown is open.
IsOpen(setting) == "flex" \in menuClass[setting]

(***************************************************************************)
(* C18: each dropdown starts closed; a click on its (enabled) toggle       *)
(* button flips it between closed and open; a click on one of its items    *)
(* leaves it closed, whether or not the item's value is the current one;   *)
(* in every reachable state the menu has exactly one of the classes        *)
(* 'hidden' and 'flex' and the chevron has 'rotate-180' exactly when the   *)
(* menu is open; after an item click that changes the value the label is   *)
(* the item's value.                                                       *)
(***************************************************************************)
C18_DropdownStateMachine ==
  /\ [](\A setting \in Settings :
          /\ Cardinality(menuClass[setting] \cap {"hidden", "flex"}) = 1
          /\ "rotate-180" \in chevronClass[setting] <=> IsOpen(setting))
  /\ [][\A setting \in Settings :
          ToggleClick(setting)
            => /\ "flex" \in menuClass'[setting] <=> ~IsOpen(setting)
               /\ \A other \in Settings \ {setting} :
                    menuClass'[other] = menuClass[other]]_vars
  /\ [][\A setting \in Settings : \A item \in Items(setting) :
          ItemClick(setting, item.value, item.type)
            => /\ "flex" \notin menuClass'[setting]
               /\ selectText'[setting] = item.value]_vars

\* The instances menu has been opened again after the selection of 'none',
\* and the selection of a type has left the types menu closed.
C18_Witness ==
  /\ IsOpen("instances")
  /\ "rotate-180" \in chevronClass["instances"]
  /\ selectText["instances"] = NoneStr
  /\ ~IsOpen("types")
  /\ lastType = "error"
  /\ selectText["types"] = "error"

NonNumeric(v) == v.s = "" \/ ToNumber(v).k = "nan"

(***************************************************************************)
(* C20: after an accepted getSettings, updateDelay is the default of       *)
(* 2000 ms whenever the text of the delay input is empty or not a number,  *)
(* and in every reachable state the delay the re-arm and deferral timers   *)
(* use is a positive number.                                               *)
(* Refuted: the test is on value * 1000 being truthy, which a negative     *)
(* number passes, and the text itself is stored: '-1' gives a delay of -1. *)
(***************************************************************************)
C20_DelayValidated ==
  /\ [][\A inp \in DelayInputs :
          SettingsAccepted(selectText["instances"]) /\ NonNumeric(inp.delay)
            /\ (SubmitClickNow(RacePending, inp) \/ SubmitTimerFire(inp))
            => updateDelay' = JsNum(DefaultDelay)]_vars
  /\ [](ToNumber(updateDelay).k = "num" /\ ToNumber(updateDelay).n > 0)

=============================================================================
